---------------------------- MODULE Spec2Model ----------------------------
(***************************************************************************)
(* envresolve: variable expansion (services/expansion.py), the secret URI  *)
(* parser (services/reference.py), the secret resolver                     *)
(* (application/resolver.py) and the batch API (api.py).                   *)
(*                                                                         *)
(* Strings are sequences of one-character strings, so that the regular     *)
(* expression of expand_variables and the URI grammar are modelled by what *)
(* they do to the characters.                                              *)
(***************************************************************************)
EXTENDS Naturals, Sequences, FiniteSets

VARIABLES
    env,            \* the env dict handed to expand_variables / resolve
    text,           \* the text (uri) argument of the current call
    pc,             \* "ready" (call not made), "done" (call returned or raised),
                    \* "again" (the returned value was handed back in and that call ended)
    outcome,        \* what the current call returned or raised
    first,          \* [text, outcome] of the first call, once its result is fed back
    providers,      \* SecretResolver._providers: the registered schemes
    secret_map,     \* MockProvider.secret_map
    resolve_calls,  \* MockProvider.resolve_calls
    parse_result,   \* what parse_secret_uri returned or raised
    order,          \* the keys of os.environ in iteration order (env maps them)
    cfg,            \* the arguments of the batch call
    selected,       \* the keys the batch call selected, in iteration order
    index,          \* how many selected keys the batch call has processed
    result,         \* the dict the batch call builds and returns
    raised,         \* the error the batch call raised
    before,         \* [env, order] of os.environ when the batch call started
    caller_visited  \* the visited set a caller of expand_variables passed in

\* the state of the batch API and of the URI parser
api_vars == <<parse_result, order, cfg, selected, index, result, raised, before,
              caller_visited>>

vars == <<env, text, pc, outcome, first, providers, secret_map, resolve_calls,
          api_vars>>

\* no batch call and no parse in progress
ApiIdle ==
    /\ parse_result = <<>>
    /\ order = <<>>
    /\ cfg = <<>>
    /\ selected = <<>>
    /\ index = 0
    /\ result = <<>>
    /\ raised = <<>>
    /\ before = <<>>
    /\ caller_visited = {}

-----------------------------------------------------------------------------
(* Bounds *)

\* longest generated input text of expand_variables
MaxLen == 4

\* number of secrets the provider's store can hold (s1, s2, ...)
NumSecrets == 3

-----------------------------------------------------------------------------
(* Characters and strings *)

Upper == {"A","B","C","D","E","F","G","H","I","J","K","L","M",
          "N","O","P","Q","R","S","T","U","V","W","X","Y","Z"}
Lower == {"a","b","c","d","e","f","g","h","i","j","k","l","m",
          "n","o","p","q","r","s","t","u","v","w","x","y","z"}
Digit == {"0","1","2","3","4","5","6","7","8","9"}

\* [A-Za-z_]
NameStart == Upper \cup Lower \cup {"_"}
\* [A-Za-z0-9_]
NameChar == NameStart \cup Digit

Min(S) == CHOOSE x \in S : \A y \in S : x <= y
Max(S) == CHOOSE x \in S : \A y \in S : x >= y

\* s[i..] , "" when i is past the end
Tail_from(s, i) == SubSeq(s, i, Len(s))

StartsWith(s, p) == Len(s) >= Len(p) /\ SubSeq(s, 1, Len(p)) = p

\* all strings over alphabet A of length at most n
StringsUpTo(A, n) == UNION {[1..k -> A] : k \in 0..n}

-----------------------------------------------------------------------------
(* exceptions.py *)

RECURSIVE Join(_)
\* " -> ".join(chain), the separator kept as one element
Join(chain) ==
    IF chain = <<>> THEN <<>>
    ELSE IF Len(chain) = 1 THEN chain[1]
    ELSE chain[1] \o <<" -> ">> \o Join(Tail(chain))

\* The value a call returned: kind "ok". depth is the number of nested
\* expand_variables frames that were open at the deepest point of the call.
Ok(v, d) ==
    [kind |-> "ok", value |-> v, variable_name |-> <<>>, chain |-> <<>>,
     message |-> <<>>, depth |-> d]

\* CircularReferenceError.__init__(variable_name, chain=None); None and [] are both <<>>
CircularReferenceError(variable_name, chain) ==
    LET chain_str == IF chain # <<>> THEN Join(chain) ELSE variable_name
    IN  [kind |-> "CircularReferenceError", value |-> <<>>,
         variable_name |-> variable_name, chain |-> chain,
         message |-> <<"Circular reference detected: ">> \o chain_str, depth |-> 0]

\* VariableNotFoundError.__init__(variable_name)
VariableNotFoundError(variable_name) ==
    [kind |-> "VariableNotFoundError", value |-> <<>>,
     variable_name |-> variable_name, chain |-> <<>>,
     message |-> <<"Variable not found: ">> \o variable_name, depth |-> 0]

\* no call made yet
NoOutcome ==
    [kind |-> "none", value |-> <<>>, variable_name |-> <<>>, chain |-> <<>>,
     message |-> <<>>, depth |-> 0]

-----------------------------------------------------------------------------
(* services/expansion.py *)

NoMatch == [found |-> FALSE, name |-> <<>>, last |-> 0]

\* BraceMatch with the name allowed to be empty: \$\{([^}]*)\}
BraceMatch_empty_name(t, i) ==
    IF i + 1 <= Len(t) /\ t[i] = "$" /\ t[i + 1] = "{"
    THEN LET closes == {j \in (i + 2)..Len(t) : t[j] = "}"}
         IN  IF closes = {}
             THEN NoMatch
             ELSE [found |-> TRUE, name |-> SubSeq(t, i + 2, Min(closes) - 1),
                   last |-> Min(closes)]
    ELSE NoMatch

\* \$\{([^}]+)\} tried at position i: "${", a non-empty run without "}", then "}"
BraceMatch(t, i) ==
    IF i + 1 <= Len(t) /\ t[i] = "$" /\ t[i + 1] = "{"
    THEN LET closes == {j \in (i + 2)..Len(t) : t[j] = "}"}
         IN  IF closes = {} \/ Min(closes \cup {Len(t) + 1}) = i + 2
             THEN NoMatch
             ELSE [found |-> TRUE, name |-> SubSeq(t, i + 2, Min(closes) - 1),
                   last |-> Min(closes)]
    ELSE NoMatch

\* BareMatch with the name allowed to start with a digit: \$([A-Za-z0-9_]+)
BareMatch_digit_start(t, i) ==
    IF i + 1 <= Len(t) /\ t[i] = "$" /\ t[i + 1] \in NameChar
    THEN LET k == Max({j \in (i + 1)..Len(t) :
                          \A m \in (i + 1)..j : t[m] \in NameChar})
         IN  [found |-> TRUE, name |-> SubSeq(t, i + 1, k), last |-> k]
    ELSE NoMatch

\* \$([A-Za-z_][A-Za-z0-9_]*) tried at position i: the longest name
BareMatch(t, i) ==
    IF i + 1 <= Len(t) /\ t[i] = "$" /\ t[i + 1] \in NameStart
    THEN LET k == Max({j \in (i + 1)..Len(t) :
                          \A m \in (i + 1)..j : t[m] \in NameChar})
         IN  [found |-> TRUE, name |-> SubSeq(t, i + 1, k), last |-> k]
    ELSE NoMatch

\* the pattern at position i: the first alternative that matches
\* (var_name = group(1) if group(1) else group(2))
pattern(t, i) ==
    IF BraceMatch(t, i).found THEN BraceMatch(t, i) ELSE BareMatch(t, i)

RECURSIVE expand_variables(_, _, _)
RECURSIVE re_sub(_, _, _, _)

\* replace that substitutes the raw value, without expanding it
replace_raw_value(var_name, e, visited) ==
    IF var_name \in visited
    THEN CircularReferenceError(var_name, <<>>)
    ELSE IF var_name \notin DOMAIN e
    THEN VariableNotFoundError(var_name)
    ELSE Ok(e[var_name], 0)

\* replace that ends a cycle with an empty substitution instead of raising
replace_cycle_as_empty(var_name, e, visited) ==
    IF var_name \in visited
    THEN Ok(<<>>, 0)
    ELSE IF var_name \notin DOMAIN e
    THEN VariableNotFoundError(var_name)
    ELSE expand_variables(e[var_name], e, visited \cup {var_name})

\* replace that reports the variable being expanded, not the missing name
replace_reports_outer(var_name, e, visited) ==
    IF var_name \in visited
    THEN CircularReferenceError(var_name, <<>>)
    ELSE IF var_name \notin DOMAIN e
    THEN VariableNotFoundError(IF visited = {} THEN var_name
                               ELSE CHOOSE v \in visited : TRUE)
    ELSE expand_variables(e[var_name], e, visited \cup {var_name})

\* a callback that lets a name come back once on a path before it reports the
\* cycle (the second visit is kept in visited as the name with a mark)
replace_allows_second_visit(var_name, e, visited) ==
    IF var_name \o <<"'">> \in visited
    THEN CircularReferenceError(var_name, <<>>)
    ELSE IF var_name \notin DOMAIN e
    THEN VariableNotFoundError(var_name)
    ELSE expand_variables(e[var_name], e,
                          IF var_name \in visited
                          THEN visited \cup {var_name \o <<"'">>}
                          ELSE visited \cup {var_name})

\* the callback replace(match) of expand_variables, for the captured var_name
replace(var_name, e, visited) ==
    IF var_name \in visited
    THEN CircularReferenceError(var_name, <<>>)
    ELSE IF var_name \notin DOMAIN e
    THEN VariableNotFoundError(var_name)
    ELSE expand_variables(e[var_name], e, visited \cup {var_name})

\* a scan whose later tokens see the names its earlier tokens went through
re_sub_shares_visited(t, i, e, visited) ==
    IF i > Len(t) THEN Ok(<<>>, 0)
    ELSE LET m == pattern(t, i)
         IN  IF ~m.found
             THEN LET rest == re_sub(t, i + 1, e, visited)
                  IN  IF rest.kind # "ok" THEN rest
                      ELSE Ok(<<t[i]>> \o rest.value, rest.depth)
             ELSE LET r == replace(m.name, e, visited)
                  IN  IF r.kind # "ok" THEN r
                      ELSE LET rest == re_sub(t, m.last + 1, e, visited \cup {m.name})
                           IN  IF rest.kind # "ok" THEN rest
                               ELSE Ok(r.value \o rest.value,
                                       IF r.depth >= rest.depth THEN r.depth
                                       ELSE rest.depth)

\* re.sub(pattern, replace, text) from position i on: leftmost matches, not
\* overlapping, the replacement not scanned again; the first exception a
\* callback raises ends the call
re_sub(t, i, e, visited) ==
    IF i > Len(t) THEN Ok(<<>>, 0)
    ELSE LET m == pattern(t, i)
         IN  IF ~m.found
             THEN LET rest == re_sub(t, i + 1, e, visited)
                  IN  IF rest.kind # "ok" THEN rest
                      ELSE Ok(<<t[i]>> \o rest.value, rest.depth)
             ELSE LET r == replace(m.name, e, visited)
                  IN  IF r.kind # "ok" THEN r
                      ELSE LET rest == re_sub(t, m.last + 1, e, visited)
                           IN  IF rest.kind # "ok" THEN rest
                               ELSE Ok(r.value \o rest.value,
                                       IF r.depth >= rest.depth THEN r.depth
                                       ELSE rest.depth)

\* expand_variables(text, env, visited); visited=None is {}
expand_variables(t, e, visited) ==
    LET r == re_sub(t, 1, e, visited)
    IN  [r EXCEPT !.depth = r.depth + 1]

-----------------------------------------------------------------------------
(* Inputs of expand_variables *)

\* the characters of the generated texts
TextAlphabet == {"$", "{", "}", "A", "1"}

nA == <<"A">>
nB == <<"B">>
nC == <<"C">>
nN == <<"N">>
nAB == <<"A", "B">>

\* "${" name "}"
Braced(name) == <<"$", "{">> \o name \o <<"}">>
\* "$" name
Bare(name) == <<"$">> \o name

\* values the generated env dicts give to A and B; <<"-">> stands for "no entry"
Absent == <<"-">>
EnvValues ==
    { <<"1">>, <<"$">>, Braced(nA), Braced(nB), <<"1">> \o Braced(nB),
      Braced(nC) \o Braced(nA), Braced(nB) \o Braced(nB) }

\* the dict with A -> a and B -> b, an Absent value leaving the name out
MakeEnv(a, b) ==
    LET dom == (IF a = Absent THEN {} ELSE {nA}) \cup (IF b = Absent THEN {} ELSE {nB})
    IN  [n \in dom |-> IF n = nA THEN a ELSE b]

\* test_expand_nested_variables: {"C": "3", "B": "2${C}", "A": "1${B}"}
NestedEnv ==
    [n \in {nA, nB, nC} |->
        IF n = nA THEN <<"1">> \o Braced(nB)
        ELSE IF n = nB THEN <<"2">> \o Braced(nC)
        ELSE <<"3">>]

\* test_expand_nested_curly_braces: {"NESTED": "BAR", "VAR_BAR": "value"},
\* with N for NESTED, B for BAR, A for VAR_ and AB for VAR_BAR
NestedBraceEnv == [n \in {nN, nAB} |-> IF n = nN THEN <<"B">> ELSE <<"v">>]

\* "${VAR_${NESTED}}"
NestedBraceText == <<"$", "{", "A">> \o Braced(nN) \o <<"}">>

\* two variables whose values refer to the same third one
DiamondEnv ==
    [n \in {nA, nB, nC} |-> IF n = nC THEN <<"3">> ELSE Braced(nC)]

Envs ==
    {MakeEnv(a, b) : a \in EnvValues \cup {Absent}, b \in EnvValues \cup {Absent}}
    \cup {NestedEnv, NestedBraceEnv, DiamondEnv}

\* texts of the tests that the generated ones do not hold
ScenarioTexts ==
    { Bare(nB), Braced(nB), Braced(nA) \o Braced(nB), Braced(nB) \o Braced(nA),
      Braced(nA) \o Braced(nA), Bare(nA) \o Bare(nB), Braced(nB) \o <<"1">>,
      Bare(nAB), Braced(nC), Braced(nC) \o Braced(nA), NestedBraceText,
      <<"p", ":", " ", "$", "1", "0", "0">> }

\* texts where a replaced value comes to stand before a name: "${A}A", "${A}B"
AbuttingTexts == {Braced(nA) \o nA, Braced(nA) \o nB}

Texts == StringsUpTo(TextAlphabet, MaxLen) \cup ScenarioTexts \cup AbuttingTexts

-----------------------------------------------------------------------------
(* The expander as a state machine: a caller picks env and text, calls *)
(* expand_variables, and may hand the returned value back in.          *)

NoFirst == [text |-> <<>>, outcome |-> NoOutcome, calls |-> <<>>]

InitExpand ==
    /\ env \in Envs
    /\ text \in Texts
    /\ pc = "ready"
    /\ outcome = NoOutcome
    /\ first = NoFirst
    /\ providers = {}
    /\ secret_map = <<>>
    /\ resolve_calls = <<>>
    /\ ApiIdle

\* a visited set that keeps the name the previous call failed on
initial_visited_leaking(previous) ==
    IF previous.outcome.kind \in {"CircularReferenceError", "VariableNotFoundError"}
    THEN {previous.outcome.variable_name}
    ELSE {}

\* "if visited is None: visited = set()": the visited set a top-level call
\* starts with, whatever the call before it did
initial_visited(previous) == {}

\* the texts of a later call on the same expander
NextTexts == {Braced(nA), Braced(nB)}

\* expand_variables(text, env)
Expand ==
    /\ pc = "ready"
    /\ outcome' = expand_variables(text, env, initial_visited(first))
    /\ pc' = "done"
    /\ UNCHANGED <<env, text, first, providers, secret_map, resolve_calls, api_vars>>

\* expand_variables(r, env) for the r the first call returned
Reexpand ==
    /\ pc = "done"
    /\ outcome.kind = "ok"
    /\ first' = [text |-> text, outcome |-> outcome, calls |-> resolve_calls]
    /\ text' = outcome.value
    /\ outcome' = expand_variables(outcome.value, env, initial_visited(first'))
    /\ pc' = "again"
    /\ UNCHANGED <<env, providers, secret_map, resolve_calls, api_vars>>

\* expand_variables(x, env) for another text x, after a call that returned or
\* raised
ExpandNext ==
    /\ pc = "done"
    /\ first' = [text |-> text, outcome |-> outcome, calls |-> resolve_calls]
    /\ \E x \in NextTexts :
          /\ text' = x
          /\ outcome' = expand_variables(x, env, initial_visited(first'))
    /\ pc' = "next"
    /\ UNCHANGED <<env, providers, secret_map, resolve_calls, api_vars>>

NextExpand == Expand \/ Reexpand \/ ExpandNext

SpecExpand == InitExpand /\ [][NextExpand]_vars

-----------------------------------------------------------------------------
(* What the claims about expand_variables speak of, stated on the text *)
(* itself and not through the scanner above.                             *)

\* t[i..j] is a "${NAME}" token
IsBraceToken(t, i, j) ==
    /\ i + 3 <= j /\ j <= Len(t)
    /\ t[i] = "$" /\ t[i + 1] = "{" /\ t[j] = "}"
    /\ \A k \in (i + 2)..(j - 1) : t[k] # "}"

\* t[i..j] is a "$NAME" token, NAME as long as it can be
IsBareToken(t, i, j) ==
    /\ i + 1 <= j /\ j <= Len(t)
    /\ t[i] = "$" /\ t[i + 1] \in NameStart
    /\ \A k \in (i + 1)..j : t[k] \in NameChar
    /\ (j = Len(t) \/ t[j + 1] \notin NameChar)

IsToken(t, i, j) == IsBraceToken(t, i, j) \/ IsBareToken(t, i, j)

TokenName(t, i, j) ==
    IF IsBraceToken(t, i, j) THEN SubSeq(t, i + 2, j - 1) ELSE SubSeq(t, i + 1, j)

\* the text holds a reference token somewhere
HasToken(t) == \E i \in 1..Len(t) : \E j \in i..Len(t) : IsToken(t, i, j)

RECURSIVE Segments(_, _)
\* t from position i on, cut into literal characters and tokens, left to right
Segments(t, i) ==
    IF i > Len(t) THEN <<>>
    ELSE IF \E j \in i..Len(t) : IsToken(t, i, j)
    THEN LET j == CHOOSE j \in i..Len(t) : IsToken(t, i, j)
         IN  <<[token |-> TRUE, s |-> TokenName(t, i, j)]>> \o Segments(t, j + 1)
    ELSE <<[token |-> FALSE, s |-> <<t[i]>>]>> \o Segments(t, i + 1)

\* the names the tokens of t refer to
RefNames(t) ==
    LET segs == Segments(t, 1)
    IN  {segs[k].s : k \in {k \in 1..Len(segs) : segs[k].token}}

\* the name of the first token of t (t has one)
FirstRef(t) ==
    LET segs == Segments(t, 1)
    IN  segs[Min({k \in 1..Len(segs) : segs[k].token})].s

RECURSIVE Closure(_, _)
\* S and every name the values of its names refer to, transitively
Closure(S, e) ==
    LET S2 == S \cup UNION {RefNames(e[n]) : n \in S \cap DOMAIN e}
    IN  IF S2 = S THEN S ELSE Closure(S2, e)

\* every name expanding t can come to
Reach(t, e) == Closure(RefNames(t), e)

\* n's value refers to n, directly or through other variables
Cyclic(n, e) == n \in DOMAIN e /\ n \in Closure(RefNames(e[n]), e)

AllDefined(t, e) == Reach(t, e) \subseteq DOMAIN e
NoCycle(t, e) == \A n \in Reach(t, e) : ~Cyclic(n, e)

RECURSIVE Flatten(_)
Flatten(ss) == IF ss = <<>> THEN <<>> ELSE Head(ss) \o Flatten(Tail(ss))

RECURSIVE FullyExpanded(_, _)
\* t with each token replaced by the fully expanded value of its name and every
\* other character kept (for AllDefined, NoCycle texts)
FullyExpanded(t, e) ==
    LET segs == Segments(t, 1)
    IN  Flatten([k \in 1..Len(segs) |->
                    IF segs[k].token THEN FullyExpanded(e[segs[k].s], e)
                    ELSE segs[k].s])

Called == pc \in {"done", "again"}

\* C4: when every referenced name is defined and there is no cycle,
\* expand_variables returns the text with each ${NAME} / $NAME token replaced by
\* the fully expanded value of env[NAME] and every other character kept in order.
C4_ExpandsEachToken ==
    (Called /\ AllDefined(text, env) /\ NoCycle(text, env))
        => /\ outcome.kind = "ok"
           /\ outcome.value = FullyExpanded(text, env)

\* C4: ${A} under {C: 3, B: 2${C}, A: 1${B}} has become 123, and a text with two
\* tokens has had both replaced
C4_Witness ==
    /\ pc = "done"
    /\ \/ env = NestedEnv /\ text = Braced(nA) /\ outcome.value = <<"1", "2", "3">>
       \/ /\ env = NestedEnv /\ text = Braced(nA) \o Braced(nB)
          /\ outcome.value = <<"1", "2", "3", "2", "3">>

\* C5 as stated: a text that refers to a variable whose value refers to itself
\* transitively always fails with CircularReferenceError.
C5_AlwaysCircularError ==
    (Called /\ \E n \in RefNames(text) : Cyclic(n, env))
        => outcome.kind = "CircularReferenceError"

\* C5 amended: such a call never returns a value: it fails with
\* CircularReferenceError when every name it can come to is defined, and otherwise
\* with CircularReferenceError or with VariableNotFoundError for an undefined name;
\* the nesting of expand_variables calls stays within the number of names of env
\* plus one.
C5_CycleNeverReturns ==
    (Called /\ \E n \in RefNames(text) : Cyclic(n, env))
        => /\ outcome.kind \in {"CircularReferenceError", "VariableNotFoundError"}
           /\ AllDefined(text, env) => outcome.kind = "CircularReferenceError"
           /\ outcome.kind = "VariableNotFoundError"
                 => outcome.variable_name \notin DOMAIN env
           /\ outcome.depth <= Cardinality(DOMAIN env) + 1

\* C5: ${A} under {A: ${B}, B: ${A}} has failed with CircularReferenceError
C5_Witness ==
    /\ pc = "done"
    /\ env = MakeEnv(Braced(nB), Braced(nA))
    /\ text = Braced(nA)
    /\ outcome.kind = "CircularReferenceError"

\* C6: a VariableNotFoundError names a name that has no entry in env and that a
\* token the expansion came to refers to; a text whose first token is undefined
\* fails naming it, and a text whose first token is a variable whose value's first
\* token is undefined fails naming that inner name.
C6_NamesMissingVariable ==
    /\ (Called /\ outcome.kind = "VariableNotFoundError")
          => /\ outcome.variable_name \notin DOMAIN env
             /\ outcome.variable_name \in Reach(text, env)
             /\ outcome.message = <<"Variable not found: ">> \o outcome.variable_name
    /\ (Called /\ HasToken(text) /\ FirstRef(text) \notin DOMAIN env)
          => /\ outcome.kind = "VariableNotFoundError"
             /\ outcome.variable_name = FirstRef(text)
    /\ (/\ Called /\ HasToken(text) /\ FirstRef(text) \in DOMAIN env
        /\ HasToken(env[FirstRef(text)])
        /\ FirstRef(env[FirstRef(text)]) \notin DOMAIN env)
          => /\ outcome.kind = "VariableNotFoundError"
             /\ outcome.variable_name = FirstRef(env[FirstRef(text)])

\* C6: the missing reference sits inside the value of another variable
C6_Witness ==
    /\ pc = "done"
    /\ outcome.kind = "VariableNotFoundError"
    /\ outcome.variable_name = nC
    /\ nC \notin RefNames(text)
    /\ nA \in RefNames(text)

\* C7: a text that holds no reference token is returned unchanged, whatever env is.
C7_NoTokenUnchanged ==
    (Called /\ ~HasToken(text)) => (outcome.kind = "ok" /\ outcome.value = text)

\* C7: "price: $100" and a text with "$" before "{" and no name have come back unchanged
C7_Witness ==
    /\ pc = "done"
    /\ outcome.kind = "ok"
    /\ \/ text = <<"p", ":", " ", "$", "1", "0", "0">> /\ outcome.value = text
       \/ text = <<"$", "{", "}", "$">> /\ outcome.value = text

\* C8: the CircularReferenceError of expand_variables carries the chain of names
\* visited followed by the repeated name: ${A} under {A: ${B}, B: ${A}} raises with
\* chain [A, B, A] and message "Circular reference detected: A -> B -> A".
C8_ChainCarried ==
    (Called /\ outcome.kind = "CircularReferenceError")
        => /\ outcome.chain # <<>>
           /\ outcome.chain[Len(outcome.chain)] = outcome.variable_name
           /\ (env = MakeEnv(Braced(nB), Braced(nA)) /\ text = Braced(nA))
                 => /\ outcome.chain = <<nA, nB, nA>>
                    /\ outcome.message =
                         <<"Circular reference detected: ", "A", " -> ", "B", " -> ", "A">>

\* C9: ${VAR_${NESTED}} under {NESTED: BAR, VAR_BAR: value} returns "value".
C9_NestedBracesInsideOut ==
    (Called /\ env = NestedBraceEnv /\ text = NestedBraceText)
        => (outcome.kind = "ok" /\ outcome.value = <<"v">>)

-----------------------------------------------------------------------------
(* services/reference.py and the provider *)

AKV == <<"a", "k", "v">>
SchemeSep == <<":", "/", "/">>

\* ParsedURI["version"] of a URI without ?version=
None == <<"None">>

\* scheme "://" vault "/" secret
Uri(vault, secret) == AKV \o SchemeSep \o vault \o <<"/">> \o secret

\* is_secret_uri(uri): the scheme is the supported one
is_secret_uri(uri) == StartsWith(uri, AKV \o SchemeSep)

\* URIParseError, the message naming the scheme or the empty component
URIParseError(what) ==
    [kind |-> "URIParseError", value |-> <<>>, variable_name |-> <<>>,
     chain |-> <<>>, message |-> what, depth |-> 0]

\* SecretResolutionError(msg, uri)
SecretResolutionError(msg) ==
    [kind |-> "SecretResolutionError", value |-> <<>>, variable_name |-> <<>>,
     chain |-> <<>>, message |-> msg, depth |-> 0]

\* the first position of character c in s, Len(s) + 1 when there is none
IndexOf(s, c) == Min({i \in 1..Len(s) : s[i] = c} \cup {Len(s) + 1})

\* parse_secret_uri that does not check the vault
parse_secret_uri_any_vault(uri) ==
    IF ~is_secret_uri(uri)
    THEN [ok |-> FALSE, error |-> URIParseError(<<"scheme">>), uri |-> <<>>]
    ELSE LET rest == Tail_from(uri, Len(AKV \o SchemeSep) + 1)
             slash == IndexOf(rest, "/")
             path == Tail_from(rest, slash + 1)
             secret == SubSeq(path, 1, IndexOf(path, "?") - 1)
         IN  IF secret = <<>>
             THEN [ok |-> FALSE, error |-> URIParseError(<<"secret">>), uri |-> <<>>]
             ELSE [ok |-> TRUE, error |-> NoOutcome,
                   uri |-> [scheme |-> AKV, vault |-> SubSeq(rest, 1, slash - 1),
                            secret |-> secret, version |-> None]]

\* parse_secret_uri(uri): <scheme>://<vault>/<secret>[?version=<version>]
parse_secret_uri(uri) ==
    IF ~is_secret_uri(uri)
    THEN [ok |-> FALSE, error |-> URIParseError(<<"scheme">>), uri |-> <<>>]
    ELSE LET rest == Tail_from(uri, Len(AKV \o SchemeSep) + 1)
             slash == IndexOf(rest, "/")
             vault == SubSeq(rest, 1, slash - 1)
             path == Tail_from(rest, slash + 1)
             q == IndexOf(path, "?")
             secret == SubSeq(path, 1, q - 1)
             query == Tail_from(path, q + 1)
             key == <<"v", "e", "r", "s", "i", "o", "n", "=">>
             version == IF StartsWith(query, key)
                        THEN Tail_from(query, Len(key) + 1) ELSE None
         IN  IF vault = <<>>
             THEN [ok |-> FALSE, error |-> URIParseError(<<"vault">>), uri |-> <<>>]
             ELSE IF secret = <<>>
             THEN [ok |-> FALSE, error |-> URIParseError(<<"secret">>), uri |-> <<>>]
             ELSE [ok |-> TRUE, error |-> NoOutcome,
                   uri |-> [scheme |-> AKV, vault |-> vault, secret |-> secret,
                            version |-> version]]

\* MockProvider.resolve(parsed_uri): records the call and returns
\* secret_map.get(secret, f"mock-value-{secret}")
MockProvider_resolve(parsed_uri, smap, calls) ==
    [value |-> IF parsed_uri.secret \in DOMAIN smap THEN smap[parsed_uri.secret]
               ELSE <<"m", "o", "c", "k", "-", "v", "a", "l", "u", "e", "-">>
                    \o parsed_uri.secret,
     resolve_calls |-> Append(calls, parsed_uri)]

\* the store entry of a secret for which the provider raises
Failing == <<"!">>

\* the store entry of a secret for which the provider raises ValueError
Unexpected == <<"?">>

\* ValueError(msg), an error outside the EnvResolveError family
ValueError(msg) ==
    [kind |-> "ValueError", value |-> <<>>, variable_name |-> <<>>,
     chain |-> <<>>, message |-> msg, depth |-> 0]

\* provider.resolve whose unexpected failure comes out as a SecretResolutionError
provider_resolve_wraps_unexpected(parsed_uri, smap, calls) ==
    IF /\ parsed_uri.secret \in DOMAIN smap
       /\ smap[parsed_uri.secret] \in {Failing, Unexpected}
    THEN [outcome |-> SecretResolutionError(<<"Simulated resolution failure">>),
          resolve_calls |-> Append(calls, parsed_uri)]
    ELSE LET got == MockProvider_resolve(parsed_uri, smap, calls)
         IN  [outcome |-> Ok(got.value, 0), resolve_calls |-> got.resolve_calls]

\* provider.resolve(parsed_uri) of the registered provider: it raises
\* SecretResolutionError for a failing secret (FailingProvider of the tests),
\* ValueError for an unexpected one (UnexpectedErrorProvider) and answers as
\* MockProvider for the others; what it raises leaves resolve as it is
provider_resolve(parsed_uri, smap, calls) ==
    IF parsed_uri.secret \in DOMAIN smap /\ smap[parsed_uri.secret] = Failing
    THEN [outcome |-> SecretResolutionError(<<"Simulated resolution failure">>),
          resolve_calls |-> Append(calls, parsed_uri)]
    ELSE IF parsed_uri.secret \in DOMAIN smap /\ smap[parsed_uri.secret] = Unexpected
    THEN [outcome |-> ValueError(<<"Unexpected internal error">>),
          resolve_calls |-> Append(calls, parsed_uri)]
    ELSE LET got == MockProvider_resolve(parsed_uri, smap, calls)
         IN  [outcome |-> Ok(got.value, 0), resolve_calls |-> got.resolve_calls]

-----------------------------------------------------------------------------
(* application/resolver.py *)

\* _get_provider that finds a provider for every scheme
get_provider_unchecked(parsed_uri, provs) ==
    [ok |-> TRUE, error |-> NoOutcome]

\* SecretResolver._get_provider(parsed_uri)
get_provider(parsed_uri, provs) ==
    IF parsed_uri.scheme \notin provs
    THEN [ok |-> FALSE,
          error |-> SecretResolutionError(
                        <<"No provider registered for scheme '">>
                        \o parsed_uri.scheme \o <<"'">>)]
    ELSE [ok |-> TRUE, error |-> NoOutcome]

\* resolve that hands every expanded string to the parser, secret URI or not
resolve_without_uri_check(uri, e, provs, smap, calls) ==
    LET expanded == expand_variables(uri, e, {})
    IN  IF expanded.kind # "ok"
        THEN [outcome |-> [expanded EXCEPT !.depth = 0], resolve_calls |-> calls]
        ELSE LET parsed == parse_secret_uri(expanded.value)
             IN  IF ~parsed.ok
                 THEN [outcome |-> parsed.error, resolve_calls |-> calls]
                 ELSE LET got == MockProvider_resolve(parsed.uri, smap, calls)
                      IN  [outcome |-> Ok(got.value, 0),
                           resolve_calls |-> got.resolve_calls]

\* resolve that takes a provider value equal to the reference for a cycle
resolve_noop_as_cycle(uri, e, provs, smap, calls) ==
    LET expanded == expand_variables(uri, e, {})
    IN  IF expanded.kind # "ok"
        THEN [outcome |-> [expanded EXCEPT !.depth = 0], resolve_calls |-> calls]
        ELSE IF ~is_secret_uri(expanded.value)
        THEN [outcome |-> Ok(expanded.value, 0), resolve_calls |-> calls]
        ELSE LET parsed == parse_secret_uri(expanded.value)
             IN  IF ~parsed.ok
                 THEN [outcome |-> parsed.error, resolve_calls |-> calls]
                 ELSE LET provider == get_provider(parsed.uri, provs)
                      IN  IF ~provider.ok
                          THEN [outcome |-> provider.error, resolve_calls |-> calls]
                          ELSE LET got == MockProvider_resolve(parsed.uri, smap, calls)
                               IN  [outcome |->
                                        IF got.value = expanded.value
                                        THEN CircularReferenceError(got.value, <<>>)
                                        ELSE Ok(got.value, 0),
                                    resolve_calls |-> got.resolve_calls]

\* resolve that asks the provider once more when the value it returned is
\* again a well-formed secret URI
resolve_follows_once_more(uri, e, provs, smap, calls) ==
    LET expanded == expand_variables(uri, e, {})
    IN  IF expanded.kind # "ok"
        THEN [outcome |-> [expanded EXCEPT !.depth = 0], resolve_calls |-> calls]
        ELSE IF ~is_secret_uri(expanded.value)
        THEN [outcome |-> Ok(expanded.value, 0), resolve_calls |-> calls]
        ELSE LET parsed == parse_secret_uri(expanded.value)
             IN  IF ~parsed.ok
                 THEN [outcome |-> parsed.error, resolve_calls |-> calls]
                 ELSE LET provider == get_provider(parsed.uri, provs)
                      IN  IF ~provider.ok
                          THEN [outcome |-> provider.error, resolve_calls |-> calls]
                          ELSE LET got == MockProvider_resolve(parsed.uri, smap, calls)
                                   next == parse_secret_uri(got.value)
                                   more == MockProvider_resolve(next.uri, smap,
                                                                got.resolve_calls)
                               IN  IF next.ok
                                   THEN [outcome |-> Ok(more.value, 0),
                                         resolve_calls |-> more.resolve_calls]
                                   ELSE [outcome |-> Ok(got.value, 0),
                                         resolve_calls |-> got.resolve_calls]

\* resolve that looks the provider up before it parses the URI
resolve_lookup_before_parse(uri, e, provs, smap, calls) ==
    LET expanded == expand_variables(uri, e, {})
    IN  IF expanded.kind # "ok"
        THEN [outcome |-> [expanded EXCEPT !.depth = 0], resolve_calls |-> calls]
        ELSE IF ~is_secret_uri(expanded.value)
        THEN [outcome |-> Ok(expanded.value, 0), resolve_calls |-> calls]
        ELSE LET provider == get_provider([scheme |-> AKV], provs)
                 parsed == parse_secret_uri(expanded.value)
             IN  IF ~provider.ok
                 THEN [outcome |-> provider.error, resolve_calls |-> calls]
                 ELSE IF ~parsed.ok
                 THEN [outcome |-> parsed.error, resolve_calls |-> calls]
                 ELSE LET got == MockProvider_resolve(parsed.uri, smap, calls)
                      IN  [outcome |-> Ok(got.value, 0),
                           resolve_calls |-> got.resolve_calls]

\* resolve that asks the provider once more when the provider raised
resolve_retries_provider(uri, e, provs, smap, calls) ==
    LET expanded == expand_variables(uri, e, {})
    IN  IF expanded.kind # "ok"
        THEN [outcome |-> [expanded EXCEPT !.depth = 0], resolve_calls |-> calls]
        ELSE IF ~is_secret_uri(expanded.value)
        THEN [outcome |-> Ok(expanded.value, 0), resolve_calls |-> calls]
        ELSE LET parsed == parse_secret_uri(expanded.value)
             IN  IF ~parsed.ok
                 THEN [outcome |-> parsed.error, resolve_calls |-> calls]
                 ELSE LET provider == get_provider(parsed.uri, provs)
                      IN  IF ~provider.ok
                          THEN [outcome |-> provider.error, resolve_calls |-> calls]
                          ELSE LET got == provider_resolve(parsed.uri, smap, calls)
                               IN  IF got.outcome.kind = "ok" THEN got
                                   ELSE provider_resolve(parsed.uri, smap,
                                                         got.resolve_calls)

\* SecretResolver.resolve(uri, env): what it returns or raises, and the
\* provider's resolve_calls after it
resolve(uri, e, provs, smap, calls) ==
    LET expanded == expand_variables(uri, e, {})
    IN  IF expanded.kind # "ok"
        THEN [outcome |-> [expanded EXCEPT !.depth = 0], resolve_calls |-> calls]
        ELSE IF ~is_secret_uri(expanded.value)
        THEN [outcome |-> Ok(expanded.value, 0), resolve_calls |-> calls]
        ELSE LET parsed == parse_secret_uri(expanded.value)
             IN  IF ~parsed.ok
                 THEN [outcome |-> parsed.error, resolve_calls |-> calls]
                 ELSE LET provider == get_provider(parsed.uri, provs)
                      IN  IF ~provider.ok
                          THEN [outcome |-> provider.error, resolve_calls |-> calls]
                          ELSE provider_resolve(parsed.uri, smap, calls)

-----------------------------------------------------------------------------
(* Inputs of SecretResolver.resolve *)

DigitChars == <<"1", "2", "3", "4", "5", "6", "7", "8", "9">>

\* the secret named s<k>
Secret(k) == <<"s", DigitChars[k]>>
Secrets == {Secret(k) : k \in 1..NumSecrets}

vV == <<"v">>
nK == <<"K">>
nU == <<"U">>
Final == <<"f">>

\* what the store may hold for a secret: a literal, a reference to a secret, a
\* reference whose secret name is ${K}; Absent for no entry
SecretValues ==
    {Final, Uri(vV, Braced(nK))} \cup {Uri(vV, s) : s \in Secrets}

SecretMaps ==
    UNION {[D -> SecretValues] : D \in SUBSET Secrets}

ResolveEnvs ==
    { <<>>,
      [n \in {nK} |-> Secret(2)],
      [n \in {nK} |-> Secret(1)],
      [n \in {nK, nU} |-> IF n = nK THEN Secret(2) ELSE Uri(vV, Secret(1))] }

\* "postgres://localhost/db", shortened
OtherSchemeUri == <<"p", "g", ":", "/", "/", "h", "/", "d">>

ResolveInputs ==
    StringsUpTo({"$", "A", "/"}, 2)
    \cup { Uri(vV, Secret(1)), Uri(vV, Braced(nK)), Braced(nK), Braced(nU),
           OtherSchemeUri, <<"p">>, Uri(vV, <<>>),
           Uri(vV, Secret(1)) \o <<"?", "v", "e", "r", "s", "i", "o", "n", "=", "7">> }

-----------------------------------------------------------------------------
(* The resolver as a state machine: a caller builds a SecretResolver over a *)
(* provider, calls resolve, and may hand the returned value back in.        *)

InitResolve ==
    /\ env \in ResolveEnvs
    /\ text \in ResolveInputs
    /\ pc = "ready"
    /\ outcome = NoOutcome
    /\ first = NoFirst
    /\ providers \in {{AKV}, {}}
    /\ secret_map \in SecretMaps
    /\ resolve_calls = <<>>
    /\ ApiIdle

\* resolver.resolve(text, env)
Resolve ==
    /\ pc = "ready"
    /\ LET r == resolve(text, env, providers, secret_map, resolve_calls)
       IN  /\ outcome' = r.outcome
           /\ resolve_calls' = r.resolve_calls
    /\ pc' = "done"
    /\ UNCHANGED <<env, text, first, providers, secret_map, api_vars>>

\* resolver.resolve(r, env) for the r the first call returned
Reresolve ==
    /\ pc = "done"
    /\ outcome.kind = "ok"
    /\ first' = [text |-> text, outcome |-> outcome, calls |-> resolve_calls]
    /\ text' = outcome.value
    /\ LET r == resolve(outcome.value, env, providers, secret_map, resolve_calls)
       IN  /\ outcome' = r.outcome
           /\ resolve_calls' = r.resolve_calls
    /\ pc' = "again"
    /\ UNCHANGED <<env, providers, secret_map, api_vars>>

NextResolve == Resolve \/ Reresolve

SpecResolve == InitResolve /\ [][NextResolve]_vars

-----------------------------------------------------------------------------
(* What the claims about SecretResolver.resolve speak of *)

\* neither a variable reference nor a recognized secret reference
IsPlain(v) == ~HasToken(v) /\ ~is_secret_uri(v)

\* the secret names the provider was asked for, in order
CallSecrets == [i \in 1..Len(resolve_calls) |-> resolve_calls[i].secret]

\* the store maps secret s to value v
Holds(s, v) == s \in DOMAIN secret_map /\ secret_map[s] = v

\* resolve was called once, on akv://v/s1, with a provider registered for akv
ResolvedS1 ==
    pc = "done" /\ providers = {AKV} /\ text = Uri(vV, Secret(1))

\* C1: resolve follows indirection chains: s1 -> akv://v/s2 -> "f" returns "f"
\* after exactly the provider invocations for s1 and s2, in that order, and a
\* chain of three returns the literal after three.
C1_FollowsChain ==
    /\ (/\ ResolvedS1
        /\ Holds(Secret(1), Uri(vV, Secret(2)))
        /\ Holds(Secret(2), Final))
          => /\ outcome.kind = "ok" /\ outcome.value = Final
             /\ CallSecrets = <<Secret(1), Secret(2)>>
    /\ (/\ ResolvedS1
        /\ Holds(Secret(1), Uri(vV, Secret(2)))
        /\ Holds(Secret(2), Uri(vV, Secret(3)))
        /\ Holds(Secret(3), Final))
          => /\ outcome.kind = "ok" /\ outcome.value = Final
             /\ CallSecrets = <<Secret(1), Secret(2), Secret(3)>>

\* C2: resolve detects cycles between secret references: s1 -> akv://v/s2 ->
\* akv://v/s1 fails with CircularReferenceError and returns no value.
C2_DetectsUriCycle ==
    (/\ ResolvedS1
     /\ Holds(Secret(1), Uri(vV, Secret(2)))
     /\ Holds(Secret(2), Uri(vV, Secret(1))))
       => outcome.kind = "CircularReferenceError"

\* C3: a string with no variable-reference token that is not a recognized secret
\* reference is returned unchanged without a provider invocation, and resolving
\* the result again returns the same, again without one.
C3_PlainPassthrough ==
    /\ (pc = "done" /\ IsPlain(text))
          => /\ outcome.kind = "ok" /\ outcome.value = text
             /\ resolve_calls = <<>>
    /\ (pc = "again" /\ IsPlain(first.text))
          => /\ outcome = first.outcome
             /\ resolve_calls = first.calls

\* C3: a URI of another scheme went through resolve twice, a provider registered
C3_Witness ==
    /\ pc = "again"
    /\ providers = {AKV}
    /\ first.text = OtherSchemeUri
    /\ outcome.kind = "ok" /\ outcome.value = OtherSchemeUri
    /\ resolve_calls = <<>>

\* C10: variable references in the value the provider returned are expanded with
\* the same env before the next lookup: s1 -> akv://v/${K} with K = s2 and
\* s2 -> "f" returns "f", the provider asked for s1 and then for s2.
C10_ExpandsResolvedValue ==
    (/\ ResolvedS1
     /\ env = [n \in {nK} |-> Secret(2)]
     /\ Holds(Secret(1), Uri(vV, Braced(nK)))
     /\ Holds(Secret(2), Final))
       => /\ outcome.kind = "ok" /\ outcome.value = Final
          /\ CallSecrets = <<Secret(1), Secret(2)>>


-----------------------------------------------------------------------------
(* One call of resolve, step by step *)

\* s contains sub as a contiguous substring
Contains(s, sub) ==
    \E i \in 1..(Len(s) - Len(sub) + 1) : SubSeq(s, i, i + Len(sub) - 1) = sub

\* the text of the call that ran last, after variable expansion
Expanded == expand_variables(text, env, {})

\* the call that ran last reached the parser with a recognized secret reference
ReachedParser ==
    /\ pc \in {"done", "again"}
    /\ Expanded.kind = "ok"
    /\ is_secret_uri(Expanded.value)

Parsed == parse_secret_uri(Expanded.value)

\* the provider invocations the call that ran last made
CallsBefore == IF pc = "again" THEN first.calls ELSE <<>>
CallsOfCall == SubSeq(resolve_calls, Len(CallsBefore) + 1, Len(resolve_calls))

\* the call that ran last asked a registered provider for a well-formed reference
AskedProvider == ReachedParser /\ Parsed.ok /\ providers = {AKV}

\* the provider is a no-op for the reference of the call that ran last
NoOpProvider == AskedProvider /\ Holds(Parsed.uri.secret, Expanded.value)

\* C11: when the provider returns the very reference string it was asked to
\* resolve, resolve returns that string after that single provider invocation:
\* no CircularReferenceError, no second invocation.
C11_NoOpProviderStops ==
    NoOpProvider
      => /\ outcome.kind = "ok" /\ outcome.value = Expanded.value
         /\ CallsOfCall = <<Parsed.uri>>

\* C11: akv://v/${K} with K = s1 was resolved over a store where s1 holds
\* akv://v/s1, and came back as akv://v/s1
C11_Witness ==
    /\ pc = "done" /\ NoOpProvider
    /\ text = Uri(vV, Braced(nK))
    /\ outcome.kind = "ok" /\ outcome.value = Uri(vV, Secret(1))
    /\ CallSecrets = <<Secret(1)>>

\* C12: every resolve call ends by returning or raising, and within one call
\* the provider is invoked at most once per distinct secret reference.
C12_TerminatesOncePerReference ==
    Called
      => /\ outcome.kind \in {"ok", "CircularReferenceError", "VariableNotFoundError",
                              "URIParseError", "SecretResolutionError"}
         /\ \A i, j \in 1..Len(CallsOfCall) :
                CallsOfCall[i] = CallsOfCall[j] => i = j

\* C12: a second call ran over a store where s1 holds akv://v/s1, and each of
\* the two calls asked the provider for s1 once
C12_Witness ==
    /\ pc = "again" /\ NoOpProvider
    /\ CallSecrets = <<Secret(1), Secret(1)>>
    /\ Len(CallsOfCall) = 1

\* C13: a well-formed secret reference with no provider registered for its
\* scheme fails with SecretResolutionError whose message names the scheme, and
\* no provider is invoked.
C13_NoProviderForScheme ==
    (ReachedParser /\ Parsed.ok /\ providers = {})
      => /\ outcome.kind = "SecretResolutionError"
         /\ Contains(outcome.message, Parsed.uri.scheme)
         /\ CallsOfCall = <<>>

\* C13: akv://v/s1 was resolved with no provider registered
C13_Witness ==
    /\ pc = "done" /\ providers = {}
    /\ text = Uri(vV, Secret(1))
    /\ outcome.kind = "SecretResolutionError"
    /\ resolve_calls = <<>>

\* C14: a string of the supported scheme that violates the grammar fails with
\* URIParseError before any provider lookup, whether or not a provider is
\* registered, and the provider is never invoked.
C14_MalformedBeforeLookup ==
    (ReachedParser /\ ~Parsed.ok)
      => /\ outcome = Parsed.error
         /\ outcome.kind = "URIParseError"
         /\ CallsOfCall = <<>>

\* C14: akv://v/ was resolved with no provider registered and failed on the
\* missing secret name, not on the missing provider
C14_Witness ==
    /\ pc = "done" /\ providers = {}
    /\ text = Uri(vV, <<>>)
    /\ outcome = URIParseError(<<"secret">>)
    /\ resolve_calls = <<>>


-----------------------------------------------------------------------------
(* The URI parser as a state machine: a caller hands a string to            *)
(* parse_secret_uri and gets a ParsedURI or a URIParseError.                *)

VersionKey == <<"?", "v", "e", "r", "s", "i", "o", "n", "=">>

\* vault and secret names, "my-vault" shortened
ParseNames == StringsUpTo({"v", "-"}, 2) \ {<<>>}
Versions == {<<"7">>, <<"a", "1">>}

\* "akv:/", "pg://" and no scheme at all next to the supported "akv://"
ParsePrefixes ==
    {AKV \o SchemeSep, AKV \o <<":", "/">>, <<"p", "g">> \o SchemeSep, <<>>}

ParseInputs ==
    {p \o b : p \in ParsePrefixes, b \in StringsUpTo({"v", "-", "/"}, MaxLen)}
    \cup {Uri(v, s) \o VersionKey \o ver :
              v \in ParseNames, s \in ParseNames, ver \in Versions}

InitParse ==
    /\ text \in ParseInputs
    /\ pc = "parse"
    /\ env = <<>>
    /\ outcome = NoOutcome
    /\ first = NoFirst
    /\ providers = {}
    /\ secret_map = <<>>
    /\ resolve_calls = <<>>
    /\ ApiIdle

\* parse_secret_uri(text)
Parse ==
    /\ pc = "parse"
    /\ parse_result' = parse_secret_uri(text)
    /\ pc' = "parsed"
    /\ UNCHANGED <<env, text, outcome, first, providers, secret_map, resolve_calls,
                   order, cfg, selected, index, result, raised, before, caller_visited>>

NextParse == Parse

SpecParse == InitParse /\ [][NextParse]_vars

\* what follows "akv://" in u
AfterScheme(u) == Tail_from(u, Len(AKV \o SchemeSep) + 1)

\* the vault of the grammar: what stands between "akv://" and the next "/"
VaultPart(u) ==
    CHOOSE v \in {SubSeq(AfterScheme(u), 1, k) : k \in 0..Len(AfterScheme(u))} :
        /\ \A i \in 1..Len(v) : v[i] # "/"
        /\ \/ v = AfterScheme(u)
           \/ AfterScheme(u)[Len(v) + 1] = "/"

\* the secret of the grammar: what follows the vault's "/", up to a "?"
SecretPart(u) ==
    LET path == Tail_from(AfterScheme(u), Len(VaultPart(u)) + 2)
    IN  CHOOSE x \in {SubSeq(path, 1, k) : k \in 0..Len(path)} :
            /\ \A i \in 1..Len(x) : x[i] # "?"
            /\ x = path \/ path[Len(x) + 1] = "?"

\* C15: parse_secret_uri accepts exactly <scheme>://<vault>/<secret> with an
\* optional ?version=<version>: it returns scheme, vault, secret and version
\* (None when absent) if and only if the scheme is the supported one and vault
\* and secret are non-empty, and raises URIParseError otherwise, naming "vault"
\* or "secret" for the empty component; the empty string and strings of other
\* schemes are rejected.
C15_ParsesExactlyGrammar ==
    pc = "parsed"
      => /\ \A v \in ParseNames, s \in ParseNames :
                /\ text = Uri(v, s)
                     => /\ parse_result.ok
                        /\ parse_result.uri =
                             [scheme |-> AKV, vault |-> v, secret |-> s,
                              version |-> None]
                /\ \A ver \in Versions :
                     text = Uri(v, s) \o VersionKey \o ver
                       => /\ parse_result.ok
                          /\ parse_result.uri =
                               [scheme |-> AKV, vault |-> v, secret |-> s,
                                version |-> ver]
         /\ parse_result.ok
              <=> /\ is_secret_uri(text)
                  /\ VaultPart(text) # <<>>
                  /\ SecretPart(text) # <<>>
         /\ parse_result.ok
              => /\ parse_result.uri.scheme = AKV
                 /\ parse_result.uri.vault = VaultPart(text)
                 /\ parse_result.uri.secret = SecretPart(text)
         /\ ~parse_result.ok => parse_result.error.kind = "URIParseError"
         /\ (is_secret_uri(text) /\ VaultPart(text) = <<>>)
              => parse_result.error.message = <<"vault">>
         /\ (is_secret_uri(text) /\ VaultPart(text) # <<>> /\ SecretPart(text) = <<>>)
              => parse_result.error.message = <<"secret">>

\* C15: "akv:///v" was parsed and rejected for its missing vault
C15_Witness ==
    /\ pc = "parsed"
    /\ text = AKV \o SchemeSep \o <<"/", "v">>
    /\ ~parse_result.ok
    /\ parse_result.error = URIParseError(<<"vault">>)


-----------------------------------------------------------------------------
(* api.py: the batch call resolve_os_environ / load_env *)

\* MutuallyExclusiveArgumentsError(arg1, arg2)
MutuallyExclusiveArgumentsError(arg1, arg2) ==
    [kind |-> "MutuallyExclusiveArgumentsError", arg1 |-> arg1, arg2 |-> arg2,
     context_key |-> <<>>, original_error |-> NoOutcome]

\* EnvironmentVariableResolutionError(context_key, original_error)
EnvironmentVariableResolutionError(context_key, original_error) ==
    [kind |-> "EnvironmentVariableResolutionError", arg1 |-> "", arg2 |-> "",
     context_key |-> context_key, original_error |-> original_error]

\* an optional argument: not given (None), or given with a value
NotGiven(empty) == [given |-> FALSE, value |-> empty]
Given(v) == [given |-> TRUE, value |-> v]

\* validation that lets keys and prefix through together
validate_nothing(c) == NoOutcome

\* START: keys and prefix are mutually exclusive
validate(c) ==
    IF c.keys.given /\ c.prefix.given
    THEN MutuallyExclusiveArgumentsError("keys", "prefix")
    ELSE NoOutcome

\* glob match of name against pat, "*" standing for any run of characters
RECURSIVE fnmatch(_, _)
fnmatch(name, pat) ==
    IF pat = <<>> THEN name = <<>>
    ELSE IF Head(pat) = "*"
    THEN \E k \in 0..Len(name) : fnmatch(Tail_from(name, k + 1), Tail(pat))
    ELSE /\ name # <<>>
         /\ Head(name) = Head(pat)
         /\ fnmatch(Tail(name), Tail(pat))

\* ignoring by exact key only
should_ignore_keys_only(key, c) == key \in c.ignore_keys

\* ignore_keys and ignore_patterns, either match is enough
should_ignore(key, c) ==
    \/ key \in c.ignore_keys
    \/ \E pat \in c.ignore_patterns : fnmatch(key, pat)

\* FILTER: the keys of the mapping the call works on, in iteration order
select_keys(ord, c) ==
    SelectSeq(ord, LAMBDA k :
        /\ c.keys.given => k \in c.keys.value
        /\ c.prefix.given => StartsWith(k, c.prefix.value))

\* the key of the result for a key of the mapping: the prefix is stripped
output_key(key, c) ==
    IF c.prefix.given THEN Tail_from(key, Len(c.prefix.value) + 1) ELSE key

\* a policy under which the flags also decide about CircularReferenceError
error_policy_cycle_by_flag(o, c) ==
    IF o.kind = "ok" THEN "keep"
    ELSE IF o.kind \in {"VariableNotFoundError", "CircularReferenceError"}
    THEN IF c.stop_on_expansion_error THEN "wrap" ELSE "skip"
    ELSE IF o.kind = "SecretResolutionError"
    THEN IF c.stop_on_resolution_error THEN "wrap" ELSE "skip"
    ELSE "raise"

\* a policy that stops on every error, whatever the flags
error_policy_always_stop(o, c) ==
    IF o.kind = "ok" THEN "keep"
    ELSE IF o.kind \in {"VariableNotFoundError", "SecretResolutionError"}
    THEN "wrap"
    ELSE "raise"

\* a policy that skips every suppressible error, whatever the flags
error_policy_always_skip(o, c) ==
    IF o.kind = "ok" THEN "keep"
    ELSE IF o.kind \in {"VariableNotFoundError", "SecretResolutionError"}
    THEN "skip"
    ELSE "raise"

\* RESOLVE-EACH, what happens to the outcome o of one key: its value is kept,
\* the key is skipped, the error is wrapped with the key, or raised as it is
error_policy(o, c) ==
    IF o.kind = "ok" THEN "keep"
    ELSE IF o.kind = "CircularReferenceError" THEN "raise"
    ELSE IF o.kind = "VariableNotFoundError"
    THEN IF c.stop_on_expansion_error THEN "wrap" ELSE "skip"
    ELSE IF o.kind = "SecretResolutionError"
    THEN IF c.stop_on_resolution_error THEN "wrap" ELSE "skip"
    ELSE "raise"

\* the mapping m with key k set to value v
Put(m, k, v) == [x \in DOMAIN m \cup {k} |-> IF x = k THEN v ELSE m[x]]

\* write-back that replaces existing entries whatever overwrite says
written_keys_always(res, store, c) == DOMAIN res

\* WRITE-BACK: the result keys written to the store, and the prefixed keys
\* those replace; with overwrite off no entry of the store is replaced or
\* removed
written_keys(res, store, c) ==
    {k \in DOMAIN res : c.overwrite \/ k \notin DOMAIN store}

\* write-back that leaves the prefixed keys in the store
removed_keys_none(res, store, c) == {}

removed_keys(res, store, c) ==
    IF c.prefix.given /\ c.overwrite
    THEN {c.prefix.value \o k : k \in written_keys(res, store, c)}
    ELSE {}

write_back(res, store, c) ==
    LET W == written_keys(res, store, c)
        R == removed_keys(res, store, c) \ W
    IN  [k \in (DOMAIN store \ R) \cup W |-> IF k \in W THEN res[k] ELSE store[k]]


-----------------------------------------------------------------------------
(* Inputs of the batch call *)

kA == <<"A">>
kPA == <<"P", "A">>
kPB == <<"P", "B">>
kM == <<"M">>
BatchPrefix == <<"P">>
BatchPattern == <<"P", "*">>

\* a plain value, as "plain-value" of the tests
Plain == <<"x">>

\* os.environ: A, PA and PB hold a plain value, a reference to a missing or to
\* another variable (cycles A <-> PA and PA <-> PB among them), or a secret
\* reference the provider answers (s1), fails for (s2) or raises ValueError
\* for (s3)
BatchEnvs ==
    {[k \in {kA, kPA, kPB} |-> IF k = kA THEN a ELSE IF k = kPA THEN b ELSE c] :
        a \in {Plain, Braced(kM), Braced(kPA), Uri(vV, Secret(1)),
               Uri(vV, Secret(3))},
        b \in {Plain, Braced(kA), Braced(kPB), Uri(vV, Secret(2))},
        c \in {Plain, Braced(kM), Braced(kPA), Uri(vV, Secret(1)),
               Uri(vV, Secret(2))}}

BatchOrders == {<<kA, kPA, kPB>>, <<kPB, kPA, kA>>}

BatchConfigs ==
    [keys : {NotGiven({}), Given({kA, kPB})},
     prefix : {NotGiven(<<>>), Given(BatchPrefix)},
     ignore_keys : {{}, {kPB}},
     ignore_patterns : {{}, {BatchPattern}},
     stop_on_expansion_error : BOOLEAN,
     stop_on_resolution_error : BOOLEAN,
     export : BOOLEAN,
     overwrite : BOOLEAN]

\* the provider of the batch call answers "f" for s1, fails for s2 and raises
\* ValueError for s3
BatchSecretMap ==
    [s \in {Secret(1), Secret(2), Secret(3)} |->
        IF s = Secret(1) THEN Final
        ELSE IF s = Secret(2) THEN Failing ELSE Unexpected]

\* a store that takes each resolved value as soon as its key is resolved
store_while_resolving_written(res, store, c) ==
    IF c.export THEN write_back(res, store, c) ELSE store

\* the store while RESOLVE-EACH runs, res being the result built so far: the
\* values are collected in the result and the store is left alone until
\* WRITE-BACK
store_while_resolving(res, store, c) == store

-----------------------------------------------------------------------------
(* The batch call as a state machine:                                       *)
(* START -> FILTER -> RESOLVE-EACH -> WRITE-BACK? -> DONE                   *)

InitBatch ==
    /\ env \in BatchEnvs
    /\ order \in BatchOrders
    /\ cfg \in BatchConfigs
    /\ before = [env |-> env, order |-> order]
    /\ providers = {AKV}
    /\ secret_map = BatchSecretMap
    /\ pc = "start"
    /\ text = <<>>
    /\ outcome = NoOutcome
    /\ first = NoFirst
    /\ resolve_calls = <<>>
    /\ parse_result = <<>>
    /\ selected = <<>>
    /\ index = 0
    /\ result = <<>>
    /\ raised = NoOutcome
    /\ caller_visited = {}

\* START: validate the mutually exclusive arguments
Validate ==
    /\ pc = "start"
    /\ raised' = validate(cfg)
    /\ pc' = IF validate(cfg).kind = "none" THEN "filter" ELSE "failed"
    /\ UNCHANGED <<env, text, outcome, first, providers, secret_map, resolve_calls,
                   parse_result, order, cfg, selected, index, result, before, caller_visited>>

\* FILTER: select the keys by keys / prefix
Filter ==
    /\ pc = "filter"
    /\ selected' = select_keys(order, cfg)
    /\ pc' = "each"
    /\ UNCHANGED <<env, text, outcome, first, providers, secret_map, resolve_calls,
                   parse_result, order, cfg, index, result, raised, before, caller_visited>>

\* RESOLVE-EACH, one key: an ignored key is copied, any other key is resolved
\* against the whole mapping and its outcome handled by the error policy
ResolveEach ==
    /\ pc = "each"
    /\ index < Len(selected)
    /\ index' = index + 1
    /\ LET key == selected[index + 1]
           r == resolve(env[key], env, providers, secret_map, resolve_calls)
           policy == error_policy(r.outcome, cfg)
       IN  IF should_ignore(key, cfg)
           THEN /\ result' = Put(result, output_key(key, cfg), env[key])
                /\ UNCHANGED <<text, outcome, resolve_calls, raised, pc>>
           ELSE /\ text' = env[key]
                /\ outcome' = r.outcome
                /\ resolve_calls' = r.resolve_calls
                /\ result' = IF policy = "keep"
                             THEN Put(result, output_key(key, cfg), r.outcome.value)
                             ELSE result
                /\ raised' = IF policy = "wrap"
                             THEN EnvironmentVariableResolutionError(key, r.outcome)
                             ELSE IF policy = "raise" THEN r.outcome
                             ELSE raised
                /\ pc' = IF policy \in {"wrap", "raise"} THEN "failed" ELSE pc
    /\ env' = store_while_resolving(result', env, cfg)
    /\ UNCHANGED <<first, providers, secret_map, parse_result, order, cfg,
                   selected, before, caller_visited>>

\* every selected key is processed: write back when exporting
EndEach ==
    /\ pc = "each"
    /\ index = Len(selected)
    /\ pc' = IF cfg.export THEN "write_back" ELSE "done"
    /\ UNCHANGED <<env, text, outcome, first, providers, secret_map, resolve_calls,
                   parse_result, order, cfg, selected, index, result, raised, before, caller_visited>>

\* WRITE-BACK: the results go to the store, key by key in result order
WriteBack ==
    /\ pc = "write_back"
    /\ env' = write_back(result, env, cfg)
    /\ order' = SelectSeq(order, LAMBDA k : k \in DOMAIN write_back(result, env, cfg))
                \o SelectSeq([i \in 1..Len(selected) |-> output_key(selected[i], cfg)],
                             LAMBDA k : k \in DOMAIN result /\ k \notin DOMAIN env)
    /\ pc' = "done"
    /\ UNCHANGED <<text, outcome, first, providers, secret_map, resolve_calls,
                   parse_result, cfg, selected, index, result, raised, before, caller_visited>>

NextBatch == Validate \/ Filter \/ ResolveEach \/ EndEach \/ WriteBack

SpecBatch == InitBatch /\ [][NextBatch]_vars


-----------------------------------------------------------------------------
(* What the claims about the batch call speak of *)

\* a batch call has started validating, or is past it
InBatch == pc \in {"start", "filter", "each", "write_back", "done", "failed"}

\* what resolving the value of key k against the mapping returns or raises, and
\* the provider invocations that takes
KeyOutcome(k) ==
    resolve(before.env[k], before.env, providers, secret_map, <<>>).outcome
KeyCalls(k) ==
    resolve(before.env[k], before.env, providers, secret_map, <<>>).resolve_calls

\* key k is excluded by ignore_keys or by the glob P* of ignore_patterns
IsIgnored(k) ==
    \/ k \in cfg.ignore_keys
    \/ BatchPattern \in cfg.ignore_patterns /\ Head(k) = "P"

\* the selected keys the call has processed so far
Processed == {selected[i] : i \in 1..index}

\* the positions of the selected keys that are resolved and fail
FailsWith(kinds) ==
    {i \in 1..Len(selected) :
        ~IsIgnored(selected[i]) /\ KeyOutcome(selected[i]).kind \in kinds}

\* the store is as it was when the call started
StoreUntouched == env = before.env /\ order = before.order

\* C16: a batch call given both keys and prefix fails with
\* MutuallyExclusiveArgumentsError(arg1 = "keys", arg2 = "prefix") before any
\* resolution work: no key is selected or expanded, no provider is invoked, no
\* result is built and the store is unchanged.
C16_KeysAndPrefixExclusive ==
    (InBatch /\ pc # "start" /\ cfg.keys.given /\ cfg.prefix.given)
      => /\ pc = "failed"
         /\ raised.kind = "MutuallyExclusiveArgumentsError"
         /\ raised.arg1 = "keys" /\ raised.arg2 = "prefix"
         /\ selected = <<>> /\ index = 0
         /\ outcome = NoOutcome
         /\ resolve_calls = <<>>
         /\ DOMAIN result = {}
         /\ StoreUntouched

\* C16: a call with keys = {A, PB} and prefix = "P" over a store whose A holds a
\* secret reference has failed
C16_Witness ==
    /\ pc = "failed"
    /\ cfg.keys.given /\ cfg.prefix.given
    /\ before.env[kA] = Uri(vV, Secret(1))
    /\ raised = MutuallyExclusiveArgumentsError("keys", "prefix")


\* the selected, resolved keys whose resolution meets a reference cycle
Cyclic_keys == FailsWith({"CircularReferenceError"})

\* the stop flag that governs an error of kind k is set
StopFlag(k) ==
    \/ k = "VariableNotFoundError" /\ cfg.stop_on_expansion_error
    \/ k = "SecretResolutionError" /\ cfg.stop_on_resolution_error

\* the call was stopped at the key it processed last, by a stop flag, with
\* EnvironmentVariableResolutionError around that key's error
StoppedAtLast ==
    /\ pc = "failed"
    /\ index \in 1..Len(selected)
    /\ raised.kind = "EnvironmentVariableResolutionError"
    /\ raised.context_key = selected[index]
    /\ raised.original_error = KeyOutcome(selected[index])
    /\ StopFlag(raised.original_error.kind)

\* the selected, resolved keys whose error no flag governs: it is raised as it is
Raising_keys ==
    FailsWith({"CircularReferenceError", "URIParseError", "ValueError"})

\* the call failed at the key it processed last with that key's error, as it is
RaisedAtLast ==
    /\ pc = "failed"
    /\ index \in Raising_keys
    /\ raised = KeyOutcome(selected[index])

Skipped_keys ==
    {i \in FailsWith({"VariableNotFoundError", "SecretResolutionError"}) :
        ~StopFlag(KeyOutcome(selected[i]).kind)}

\* the selected, resolved keys whose resolution fails in any way
Failing_keys ==
    FailsWith({"VariableNotFoundError", "SecretResolutionError",
               "CircularReferenceError", "URIParseError", "ValueError"})

Stopping_keys ==
    {i \in FailsWith({"VariableNotFoundError", "SecretResolutionError"}) :
        StopFlag(KeyOutcome(selected[i]).kind)}

RECURSIVE ExpectedCalls(_)
ExpectedCalls(n) ==
    IF n = 0 THEN <<>>
    ELSE ExpectedCalls(n - 1)
         \o (IF IsIgnored(selected[n]) THEN <<>> ELSE KeyCalls(selected[n]))

\* C20: a key that is in ignore_keys or matches a glob of ignore_patterns is
\* copied into the result with its original value, raises nothing and invokes
\* no provider, while every processed key that is not ignored and resolves
\* has its resolved value in the result.
C20_IgnoredCopiedUnresolved ==
    /\ \A i \in 1..index :
          /\ IsIgnored(selected[i])
               => /\ output_key(selected[i], cfg) \in DOMAIN result
                  /\ result[output_key(selected[i], cfg)] = before.env[selected[i]]
                  /\ ~(pc = "failed" /\ index = i)
          /\ (~IsIgnored(selected[i]) /\ KeyOutcome(selected[i]).kind = "ok")
               => /\ output_key(selected[i], cfg) \in DOMAIN result
                  /\ result[output_key(selected[i], cfg)]
                       = KeyOutcome(selected[i]).value
    /\ index > 0 => resolve_calls = ExpectedCalls(index)

\* C20: with ignore_patterns ["P*"] and no ignore_keys a call copied PA, whose
\* secret the provider fails for, and PB = ${M} with M missing, resolved A
\* through the provider, and ended without an error
C20_Witness ==
    /\ pc = "done"
    /\ cfg.ignore_keys = {} /\ cfg.ignore_patterns = {BatchPattern}
    /\ cfg.stop_on_expansion_error /\ cfg.stop_on_resolution_error
    /\ selected = <<kPB, kPA, kA>>
    /\ before.env[kPA] = Uri(vV, Secret(2))
    /\ before.env[kPB] = Braced(kM)
    /\ result[kPA] = Uri(vV, Secret(2))
    /\ result[kPB] = Braced(kM)
    /\ result[kA] = Final
    /\ CallSecrets = <<Secret(1)>>


\* key k holds a reference to the secret for which the provider raises ValueError
HoldsUnexpected(k) ==
    /\ before.env[k] = Uri(vV, Secret(3))
    /\ secret_map[Secret(3)] = Unexpected

\* C21: a failure of the provider outside the EnvResolveError family is never
\* swallowed: whatever the stop flags, the batch call fails at the key whose
\* provider raised ValueError, with that ValueError as it is.
C21_UnexpectedPropagates ==
    \A i \in 1..index :
        (~IsIgnored(selected[i]) /\ HoldsUnexpected(selected[i]))
          => /\ pc = "failed"
             /\ index = i
             /\ raised = ValueError(<<"Unexpected internal error">>)
             /\ Len(resolve_calls) > 0
             /\ resolve_calls[Len(resolve_calls)].secret = Secret(3)

\* C21: with both stop flags False a call skipped a key with a missing variable
\* and failed with the provider's ValueError at the next key
C21_Witness ==
    /\ pc = "failed"
    /\ ~cfg.stop_on_expansion_error /\ ~cfg.stop_on_resolution_error
    /\ index = 2
    /\ KeyOutcome(selected[1]).kind = "VariableNotFoundError"
    /\ ~IsIgnored(selected[1])
    /\ HoldsUnexpected(selected[2])
    /\ raised.kind = "ValueError"


\* every entry the store held when the call started is still there, unchanged
EntriesKept ==
    \A k \in DOMAIN before.env : k \in DOMAIN env /\ env[k] = before.env[k]

\* C22: with overwriting off (overwrite / override False) or without export, a
\* finished batch call has left every entry that the store held before the
\* call with its original value, without export the store as a whole, while
\* the result holds the resolved value of every key that resolved.
C22_NoOverwriteKeepsEntries ==
    (pc = "done" /\ (~cfg.export \/ ~cfg.overwrite))
      => /\ EntriesKept
         /\ ~cfg.export => StoreUntouched
         /\ \A i \in 1..index :
                (~IsIgnored(selected[i]) /\ KeyOutcome(selected[i]).kind = "ok")
                  => result[output_key(selected[i], cfg)]
                       = KeyOutcome(selected[i]).value

\* C22: a call with export and overwrite False resolved A = akv://v/s1 to "f":
\* the result holds "f" and the store still holds the reference
C22_Witness ==
    /\ pc = "done" /\ cfg.export /\ ~cfg.overwrite
    /\ ~cfg.prefix.given
    /\ before.env[kA] = Uri(vV, Secret(1))
    /\ kA \in DOMAIN result /\ result[kA] = Final
    /\ env[kA] = Uri(vV, Secret(1))


\* key k starts with the prefix of the call; k without that prefix
HasPrefix(k) == StartsWith(k, cfg.prefix.value)
Stripped(k) == Tail_from(k, Len(cfg.prefix.value) + 1)

\* the keys of the store before the call that start with the prefix
PrefixedKeys == {k \in DOMAIN before.env : HasPrefix(k)}

\* resolve_os_environ(prefix=P) with write-back and overwrite, nothing ignored,
\* has finished, and every key starting with P resolved
PrefixCallDone ==
    /\ pc = "done"
    /\ cfg.prefix.given /\ ~cfg.keys.given
    /\ cfg.export /\ cfg.overwrite
    /\ cfg.ignore_keys = {} /\ cfg.ignore_patterns = {}
    /\ \A k \in PrefixedKeys : KeyOutcome(k).kind = "ok"

\* the prefixed keys were processed, and result and store hold each under its
\* stripped key with the resolved value, the prefixed entries gone
PrefixedMoved ==
    /\ {selected[i] : i \in 1..Len(selected)} = PrefixedKeys
    /\ index = Len(selected)
    /\ DOMAIN result = {Stripped(k) : k \in PrefixedKeys}
    /\ \A k \in PrefixedKeys :
          /\ result[Stripped(k)] = KeyOutcome(k).value
          /\ Stripped(k) \in DOMAIN env
          /\ env[Stripped(k)] = KeyOutcome(k).value
          /\ k \notin DOMAIN env

-----------------------------------------------------------------------------
(* Calls that follow one another on the same expander *)

replace_effects_in_place(var_name, e, visited) ==
    [env |-> e, visited |-> visited \cup {var_name}]

\* the caller's env and visited after the callback replaced var_name:
\* "value = env[var_name]" reads env, "new_visited = visited | {var_name}"
\* builds a new set, and nothing is assigned into either object
replace_effects(var_name, e, visited) ==
    [env |-> e, visited |-> visited]

RECURSIVE call_effects(_, _, _, _)
\* the caller's env and visited after re.sub scanned t from position i on:
\* the effects of the callbacks that ran, up to the first one that raised
call_effects(t, i, e, visited) ==
    IF i > Len(t) THEN [env |-> e, visited |-> visited]
    ELSE LET m == pattern(t, i)
         IN  IF ~m.found THEN call_effects(t, i + 1, e, visited)
             ELSE IF replace(m.name, e, visited).kind # "ok"
             THEN [env |-> e, visited |-> visited]
             ELSE LET after == replace_effects(m.name, e, visited)
                  IN  call_effects(t, m.last + 1, after.env, after.visited)

\* the visited sets a caller passes explicitly
CallerVisited == SUBSET {nA, nB}

\* the texts of the calls whose effects are observed
FrameTexts ==
    ScenarioTexts \cup {Uri(vV, Secret(1)), Uri(vV, Secret(2)), Uri(vV, Secret(3))}

\* the stores of the provider: every secret a literal, or s2 failing and s3
\* failing outside the error family
FrameSecretMaps == {[s \in Secrets |-> Final], BatchSecretMap}

InitFrame ==
    /\ env \in Envs
    /\ text \in FrameTexts
    /\ pc = "ready"
    /\ outcome = NoOutcome
    /\ first = NoFirst
    /\ providers = {AKV}
    /\ secret_map \in FrameSecretMaps
    /\ resolve_calls = <<>>
    /\ parse_result = <<>>
    /\ order = <<>>
    /\ cfg = <<>>
    /\ selected = <<>>
    /\ index = 0
    /\ result = <<>>
    /\ raised = NoOutcome
    /\ caller_visited \in CallerVisited
    /\ before = [env |-> env, visited |-> caller_visited]

\* expand_variables(text, env, visited) with the caller's own set
ExpandWithVisited ==
    /\ pc = "ready"
    /\ outcome' = expand_variables(text, env, caller_visited)
    /\ LET after == call_effects(text, 1, env, caller_visited)
       IN  /\ env' = after.env
           /\ caller_visited' = after.visited
    /\ pc' = "expanded"
    /\ UNCHANGED <<text, first, providers, secret_map, resolve_calls,
                   parse_result, order, cfg, selected, index, result, raised, before>>

\* resolver.resolve(text, env): expand_variables(uri, env) runs on the
\* caller's env with a visited set of its own
ResolveWithEnv ==
    /\ pc = "ready"
    /\ LET r == resolve(text, env, providers, secret_map, resolve_calls)
       IN  /\ outcome' = r.outcome
           /\ resolve_calls' = r.resolve_calls
    /\ env' = call_effects(text, 1, env, {}).env
    /\ pc' = "resolved"
    /\ UNCHANGED <<text, first, providers, secret_map,
                   parse_result, order, cfg, selected, index, result, raised, before,
                   caller_visited>>

NextFrame == ExpandWithVisited \/ ResolveWithEnv

SpecFrame == InitFrame /\ [][NextFrame]_vars

TokenCount(t) ==
    LET segs == Segments(t, 1)
    IN  Cardinality({k \in 1..Len(segs) : segs[k].token})

\* C26: tokens side by side do not share cycle state: a text of several tokens
\* whose names are all defined and free of cycles, the same name twice or two
\* names that refer to a common one included, is expanded token by token; a
\* CircularReferenceError names a variable the text comes to whose value refers
\* back to it through nested references.
C26_SiblingsIndependent ==
    Called =>
        /\ (TokenCount(text) >= 2 /\ AllDefined(text, env) /\ NoCycle(text, env))
              => /\ outcome.kind = "ok"
                 /\ outcome.value = FullyExpanded(text, env)
        /\ outcome.kind = "CircularReferenceError"
              => /\ outcome.variable_name \in Reach(text, env)
                 /\ Cyclic(outcome.variable_name, env)

\* "${A}${A}" where A is "${B}${B}", and "${A}${B}" where A and B both refer to
\* C, have been expanded
C26_Witness ==
    /\ pc = "done"
    /\ \/ /\ env = MakeEnv(Braced(nB) \o Braced(nB), <<"1">>)
          /\ text = Braced(nA) \o Braced(nA)
          /\ outcome.value = <<"1", "1", "1", "1">>
       \/ /\ env = DiamondEnv
          /\ text = Braced(nA) \o Braced(nB)
          /\ outcome.value = <<"3", "3">>


\* ---------------------------------------------------------------------------
\* Termination
\* ---------------------------------------------------------------------------

\* C27: expand_variables terminates for every text and finite env: every call
\* ends with a value or an error, and the nesting of expand_variables frames
\* never exceeds the number of distinct names of env plus one, each nested frame
\* having added one more key of env to visited.
C27_NestingBounded ==
    pc \in {"done", "again", "next"} =>
        /\ outcome.kind \in {"ok", "CircularReferenceError", "VariableNotFoundError"}
        /\ outcome.depth >= 1
        /\ outcome.depth <= Cardinality(DOMAIN env) + 1

\* "${A}" under {A: ${B}, B: ${A}} ended with the cycle reported in the third
\* frame, the deepest two names allow
C27_Witness ==
    /\ pc = "done"
    /\ text = Braced(nA)
    /\ env = MakeEnv(Braced(nB), Braced(nA))
    /\ outcome.kind = "CircularReferenceError"
    /\ outcome.depth = 3


\* ---------------------------------------------------------------------------
\* A provider that raises
\* ---------------------------------------------------------------------------

\* the resolve call that ran asked the provider for a secret the provider fails on
ProviderRaised ==
    /\ pc = "resolved"
    /\ Expanded.kind = "ok"
    /\ is_secret_uri(Expanded.value)
    /\ Parsed.ok
    /\ Parsed.uri.secret \in DOMAIN secret_map
    /\ secret_map[Parsed.uri.secret] \in {Failing, Unexpected}

\* C28: a provider failure is terminal for the resolve call: when the provider
\* raises for the reference, resolve fails with that very failure, and the
\* provider has been invoked once in the call, for that reference and no other.
C28_ProviderFailureTerminal ==
    ProviderRaised =>
        /\ outcome = provider_resolve(Parsed.uri, secret_map, <<>>).outcome
        /\ outcome.kind \in {"SecretResolutionError", "ValueError"}
        /\ resolve_calls = <<Parsed.uri>>

\* resolve of the reference to the failing secret s2 has raised the provider's
\* SecretResolutionError after one invocation
C28_Witness ==
    /\ pc = "resolved"
    /\ text = Uri(vV, Secret(2))
    /\ secret_map = BatchSecretMap
    /\ outcome.kind = "SecretResolutionError"
    /\ Len(resolve_calls) = 1


\* ---------------------------------------------------------------------------
\* Expanding a result again
\* ---------------------------------------------------------------------------

\* C29 as stated: a result r of expand_variables holds no token the expander
\* would still match, and expand_variables(r, env) returns r again.
C29_ResultHoldsNoToken ==
    pc = "again" =>
        /\ ~HasToken(text)
        /\ outcome.kind = "ok"
        /\ outcome.value = text

\* C29 amended: a result r that holds no token is returned unchanged by
\* expand_variables(r, env), without an error; a second call fails or returns
\* another text only for a result that holds a token, which re.sub leaves there
\* because it does not scan a replacement again.
C29_IdempotentOnTokenFreeResult ==
    pc = "again" =>
        /\ ~HasToken(text) => (outcome.kind = "ok" /\ outcome.value = text)
        /\ (outcome.kind # "ok" \/ outcome.value # text) => HasToken(text)

\* "${A}${B}" under {C: 3, B: 2${C}, A: 1${B}} returned 12323, and 12323 came
\* back from the second call
C29_Witness ==
    /\ pc = "again"
    /\ env = NestedEnv
    /\ first.text = Braced(nA) \o Braced(nB)
    /\ text = <<"1", "2", "3", "2", "3">>
    /\ outcome.kind = "ok"
    /\ outcome.value = text


\* ---------------------------------------------------------------------------
\* The order of RESOLVE-EACH and WRITE-BACK
\* ---------------------------------------------------------------------------

\* C30: in a batch call with write-back, WRITE-BACK begins only after
\* RESOLVE-EACH has finished for every selected key without an error; until
\* then no store entry is written or removed, so a call that aborts, on a
\* stop-policy error or a CircularReferenceError, leaves the store exactly as it
\* was before the call, whatever it had resolved by then.
C30_WriteBackAfterResolveEach ==
    InBatch =>
        /\ pc \in {"start", "filter", "each", "write_back", "failed"} => StoreUntouched
        /\ pc = "write_back"
              => /\ cfg.export
                 /\ index = Len(selected)
                 /\ raised = NoOutcome
        /\ (pc = "done" /\ ~StoreUntouched)
              => /\ cfg.export
                 /\ index = Len(selected)
                 /\ env = write_back(result, before.env, cfg)

\* a call with write-back and overwriting that resolved A to its secret and then
\* failed on PA has left the store as it was
C30_Witness ==
    /\ pc = "failed"
    /\ cfg.export /\ cfg.overwrite
    /\ index = 2
    /\ before.env[kA] = Uri(vV, Secret(1))
    /\ kA \in DOMAIN result /\ result[kA] = Final
    /\ raised.kind = "EnvironmentVariableResolutionError"
    /\ raised.context_key = kPA
    /\ env = before.env

=============================================================================
